---------------------------- MODULE Spec2Model ----------------------------
(***************************************************************************)
(* Data Quality panel (plugins/panels/data_quality/__init__.py).           *)
(*                                                                         *)
(* The persisted record of a dataset (the execution store content), the   *)
(* panel session state (ctx.panel.state) and the collaborators the panel  *)
(* reads (the dataset, the clock, the operator being executed by the      *)
(* host) are the state.  Every event handler of the panel is one action;  *)
(* a handler is a function from the pair (store, panel) to the pair it     *)
(* leaves behind, together with the exception it lets escape, if any.     *)
(***************************************************************************)
EXTENDS Integers, FiniteSets, Sequences, TLC

VARIABLES
    store,      \* content of the execution store under the dataset key
    panel,      \* ctx.panel.state of the session whose events are handled
    other,      \* ctx.panel.state of a second session on the same dataset
    fld,        \* dataset: per issue type, how far its field is populated
    lastMod,    \* dataset._max("last_modified_at")
    now,        \* datetime.utcnow(), in ticks of ten minutes
    op,         \* operator execution the host is carrying out for the panel
    scanStart,  \* per issue type, when its status last became COMPUTING
    focus,      \* the issue types the user and the dataset's editors work on
    written,    \* issue types whose field was written since a run was queued
    last,       \* the event handled last: name, issue type, input, outcome
    call,       \* the helper called last: name, arguments, returned pair
    user        \* ctx.user.dataset_permission of the session's user

vars ==
    <<store, panel, other, fld, lastMod, now, op, scanStart, focus, written,
      last, call, user>>

-----------------------------------------------------------------------------
(* Bounds of the model *)

MaxTime == 2
DatasetSize == 2

-----------------------------------------------------------------------------
(* Constants of the program *)

\* timedelta(minutes=10), one tick of the clock being ten minutes
Timeout == 1

\* None, where the program holds a number or a timestamp
NoneVal == -1

None == "None"

\* ISSUE_TYPES: brightness stands for the four histogram issue types
\* (brightness, blurriness, aspect_ratio, entropy), which share every
\* code path of the panel.
IssueTypes == {"brightness", "near_duplicates", "exact_duplicates"}

NOT_COMPUTED == "NOT_COMPUTED"
COMPUTING == "COMPUTING"
NEEDS_REVIEW == "NEEDS_REVIEW"
REVIEWED == "REVIEWED"

\* STATUS.values()
Statuses == {NOT_COMPUTED, COMPUTING, NEEDS_REVIEW, REVIEWED}

\* DEFAULT_COMPUTING[issue_type]
DefaultComputing ==
    [is_computing |-> FALSE, execution_type |-> "",
     delegation_run_id |-> "", delegation_status |-> ""]

\* LAST_SCAN[issue_type], SAMPLE_STORE["last_scan"][issue_type]
DefaultLastScan == [timestamp |-> NoneVal, dataset_size |-> NoneVal]

\* SAMPLE_STORE["results"][issue_type]: no histogram counts/edges, no groups
DefaultResults == [has |-> FALSE, data |-> {}]

\* DEFAULT_ISSUE_CONFIG
DefaultIssueConfig ==
    [it \in IssueTypes |->
        IF it = "brightness"
        THEN [min |-> 0, max |-> 1, detect_method |-> "percentage"]
        ELSE [min |-> 0, max |-> 1, detect_method |-> "threshold"]]

\* SAMPLE_STORE
SampleStore ==
    [exists |-> TRUE,
     status |-> [it \in IssueTypes |-> NOT_COMPUTED],
     results |-> [it \in IssueTypes |-> DefaultResults],
     counts |-> [it \in IssueTypes |-> 0],
     current_counts |-> [it \in IssueTypes |-> 0],
     config |-> DefaultIssueConfig,
     computing |-> [it \in IssueTypes |-> DefaultComputing],
     last_scan |-> [it \in IssueTypes |-> DefaultLastScan]]

\* store.get(key) is None
NoStore == [SampleStore EXCEPT !.exists = FALSE]

\* the run id the delegated-operation service hands out
RunId == "run"

-----------------------------------------------------------------------------
(* The dataset query collaborator *)

\* "missing": the field is not in the schema; "empty": it is, no sample
\* carries a value; "partial": the newest sample lacks it; "full": all carry it
FldStates == {"missing", "empty", "partial", "full"}

\* ids of the samples carrying the field; sample i has value 2 * (i - 1), so
\* that the observed range is wider than 1 and a fraction of it differs from
\* the value itself
SamplesWith(f) ==
    CASE f = "full" -> 1..DatasetSize
      [] f = "partial" -> 1..(DatasetSize - 1)
      [] OTHER -> {}

ValueOf(i) == 2 * (i - 1)

\* filehash of sample i: samples 1 and 2 share one, 3 and 4 the next, ...
HashOf(i) == (i + 1) \div 2

\* len(ctx.dataset.exists(field, bool=True))
CountWith(f) == Cardinality(SamplesWith(f))

\* len(ctx.dataset.exists(field, bool=False))
CountWithout(f) == DatasetSize - CountWith(f)

\* ctx.dataset.has_field(field)
HasField(f) == f # "missing"

SetMin(S) == CHOOSE x \in S : \A y \in S : x <= y
SetMax(S) == CHOOSE x \in S : \A y \in S : x >= y

\* ctx.dataset.bounds(field), for a field some sample carries
BoundsMin(f) == SetMin({ValueOf(i) : i \in SamplesWith(f)})
BoundsMax(f) == SetMax({ValueOf(i) : i \in SamplesWith(f)})

\* len(ctx.dataset.match((F(field) >= lo) & (F(field) <= hi)))
CountIn(f, lo, hi) ==
    Cardinality({i \in SamplesWith(f) : lo <= ValueOf(i) /\ ValueOf(i) <= hi})

\* the error a histogram or bounds query of the field ends in: the field is
\* unknown to the schema (ValueError), or its bounds are (None, None) and the
\* arithmetic on them fails (TypeError)
QueryError(f) ==
    CASE f = "missing" -> "ValueError"
      [] f = "empty" -> "TypeError"
      [] OTHER -> "none"

-----------------------------------------------------------------------------
(* Pure helpers of the panel *)

\* Python truth value of a threshold: None and 0 are false
Truthy(x) == x # NoneVal /\ x # 0

\* get_threshold_range, were a range below the lower bound returned with its
\* ends the other way round
GetThresholdRangeSwapped(min_v, max_v, lower_std_bound, upper_std_bound) ==
    IF /\ lower_std_bound <= min_v /\ min_v <= upper_std_bound
       /\ lower_std_bound <= max_v /\ max_v <= upper_std_bound
    THEN <<min_v, max_v>>
    ELSE IF min_v < lower_std_bound /\ max_v <= upper_std_bound
    THEN <<lower_std_bound, min_v>>
    ELSE IF max_v > upper_std_bound /\ min_v >= lower_std_bound
    THEN <<upper_std_bound, max_v>>
    ELSE IF min_v < lower_std_bound /\ max_v > upper_std_bound
    THEN IF (lower_std_bound - min_v) > (max_v - upper_std_bound)
         THEN <<min_v, lower_std_bound>>
         ELSE <<upper_std_bound, max_v>>
    ELSE <<lower_std_bound, upper_std_bound>>

\* get_threshold_range, were a range reaching above the upper bound cut off
\* at that bound
GetThresholdRangeClamped(min_v, max_v, lower_std_bound, upper_std_bound) ==
    IF /\ lower_std_bound <= min_v /\ min_v <= upper_std_bound
       /\ lower_std_bound <= max_v /\ max_v <= upper_std_bound
    THEN <<min_v, max_v>>
    ELSE IF min_v < lower_std_bound /\ max_v <= upper_std_bound
    THEN <<min_v, lower_std_bound>>
    ELSE IF max_v > upper_std_bound /\ min_v >= lower_std_bound
    THEN <<min_v, upper_std_bound>>
    ELSE IF min_v < lower_std_bound /\ max_v > upper_std_bound
    THEN IF (lower_std_bound - min_v) > (max_v - upper_std_bound)
         THEN <<min_v, lower_std_bound>>
         ELSE <<upper_std_bound, max_v>>
    ELSE <<lower_std_bound, upper_std_bound>>

\* get_threshold_range, were a tie between the two sides settled for the lower
GetThresholdRangeTieLower(min_v, max_v, lower_std_bound, upper_std_bound) ==
    IF /\ lower_std_bound <= min_v /\ min_v <= upper_std_bound
       /\ lower_std_bound <= max_v /\ max_v <= upper_std_bound
    THEN <<min_v, max_v>>
    ELSE IF min_v < lower_std_bound /\ max_v <= upper_std_bound
    THEN <<min_v, lower_std_bound>>
    ELSE IF max_v > upper_std_bound /\ min_v >= lower_std_bound
    THEN <<upper_std_bound, max_v>>
    ELSE IF min_v < lower_std_bound /\ max_v > upper_std_bound
    THEN IF (lower_std_bound - min_v) >= (max_v - upper_std_bound)
         THEN <<min_v, lower_std_bound>>
         ELSE <<upper_std_bound, max_v>>
    ELSE <<lower_std_bound, upper_std_bound>>

\* get_threshold_range: the pair it returns
GetThresholdRange(min_v, max_v, lower_std_bound, upper_std_bound) ==
    IF /\ lower_std_bound <= min_v /\ min_v <= upper_std_bound
       /\ lower_std_bound <= max_v /\ max_v <= upper_std_bound
    THEN <<min_v, max_v>>
    ELSE IF min_v < lower_std_bound /\ max_v <= upper_std_bound
    THEN <<min_v, lower_std_bound>>
    ELSE IF max_v > upper_std_bound /\ min_v >= lower_std_bound
    THEN <<upper_std_bound, max_v>>
    ELSE IF min_v < lower_std_bound /\ max_v > upper_std_bound
    THEN IF (lower_std_bound - min_v) > (max_v - upper_std_bound)
         THEN <<min_v, lower_std_bound>>
         ELSE <<upper_std_bound, max_v>>
    ELSE <<lower_std_bound, upper_std_bound>>

\* get_plot_defaults, were a configured range above the observed one collapsed
\* to its upper end
PlotDefaultsAtUpperOnly(unit, new_lower, new_upper, method, min_v, max_v) ==
    IF /\ Truthy(new_lower)
       /\ Truthy(new_upper)
       /\ new_lower >= min_v
       /\ new_lower < max_v
       /\ new_upper > min_v
       /\ new_upper <= max_v
    THEN <<new_lower, new_upper>>
    ELSE IF method = "percentage"
    THEN LET value_range == max_v - min_v
             lower_factor == (new_lower * value_range) \div unit
             lower_thresh == IF min_v + lower_factor <= max_v
                             THEN min_v + lower_factor ELSE min_v
             upper_factor == (new_upper * value_range) \div unit
             upper_thresh == IF min_v + upper_factor >= min_v
                             THEN min_v + upper_factor ELSE max_v
         IN  IF upper_thresh < lower_thresh
             THEN <<min_v, min_v>>
             ELSE <<lower_thresh, upper_thresh>>
    ELSE IF new_upper < min_v THEN <<new_upper, new_upper>>
    ELSE IF new_lower > max_v THEN <<new_upper, new_upper>>
    ELSE <<new_lower, new_upper>>

\* get_plot_defaults, were the percentage thresholds returned without the
\* test that the upper one is not below the lower one
PlotDefaultsAtNoCollapse(unit, new_lower, new_upper, method, min_v, max_v) ==
    IF /\ Truthy(new_lower)
       /\ Truthy(new_upper)
       /\ new_lower >= min_v
       /\ new_lower < max_v
       /\ new_upper > min_v
       /\ new_upper <= max_v
    THEN <<new_lower, new_upper>>
    ELSE IF method = "percentage"
    THEN LET value_range == max_v - min_v
             lower_factor == (new_lower * value_range) \div unit
             lower_thresh == IF min_v + lower_factor <= max_v
                             THEN min_v + lower_factor ELSE min_v
             upper_factor == (new_upper * value_range) \div unit
             upper_thresh == IF min_v + upper_factor >= min_v
                             THEN min_v + upper_factor ELSE max_v
         IN  <<lower_thresh, upper_thresh>>
    ELSE IF new_upper < min_v THEN <<new_upper, new_upper>>
    ELSE IF new_lower > max_v THEN <<new_lower, new_lower>>
    ELSE <<new_lower, new_upper>>

\* get_plot_defaults, once the configured pair and the bounds are known; the
\* numbers are decimals counted in steps of 1/unit, so that a product of two
\* of them is their integer product over unit
PlotDefaultsAt(unit, new_lower, new_upper, method, min_v, max_v) ==
    IF /\ Truthy(new_lower)
       /\ Truthy(new_upper)
       /\ new_lower >= min_v
       /\ new_lower < max_v
       /\ new_upper > min_v
       /\ new_upper <= max_v
    THEN <<new_lower, new_upper>>
    ELSE IF method = "percentage"
    THEN LET value_range == max_v - min_v
             lower_factor == (new_lower * value_range) \div unit
             lower_thresh == IF min_v + lower_factor <= max_v
                             THEN min_v + lower_factor ELSE min_v
             upper_factor == (new_upper * value_range) \div unit
             upper_thresh == IF min_v + upper_factor >= min_v
                             THEN min_v + upper_factor ELSE max_v
         IN  IF upper_thresh < lower_thresh
             THEN <<min_v, min_v>>
             ELSE <<lower_thresh, upper_thresh>>
    ELSE IF new_upper < min_v THEN <<new_upper, new_upper>>
    ELSE IF new_lower > max_v THEN <<new_lower, new_lower>>
    ELSE <<new_lower, new_upper>>

\* get_plot_defaults on the whole numbers the dataset of the model holds
PlotDefaults(new_lower, new_upper, method, min_v, max_v) ==
    PlotDefaultsAt(1, new_lower, new_upper, method, min_v, max_v)

\* view.values(["id", "filehash"]) of ctx.dataset.exists("filehash"): the ids,
\* in the order of the dataset, of the samples whose hash is not None
RECURSIVE HashedIds(_, _)
HashedIds(hashes, i) ==
    IF i > Len(hashes) THEN <<>>
    ELSE IF hashes[i] = None THEN HashedIds(hashes, i + 1)
    ELSE <<i>> \o HashedIds(hashes, i + 1)

\* Counter(filehashes)[k], the samples being sample_ids
FilehashCount(hashes, sample_ids, k) ==
    Cardinality({j \in 1..Len(sample_ids) : hashes[sample_ids[j]] = k})

\* filehash_to_ids[filehash].append(id): the list of (hash, ids) items, a new
\* hash going to the end
AppendId(items, filehash, id) ==
    IF \E n \in 1..Len(items) : items[n][1] = filehash
    THEN [n \in 1..Len(items) |->
             IF items[n][1] = filehash
             THEN <<filehash, Append(items[n][2], id)>> ELSE items[n]]
    ELSE Append(items, <<filehash, <<id>>>>)

\* the loop over zip(sample_ids, filehashes), from position j on
RECURSIVE FilehashToIds(_, _, _, _, _)
FilehashToIds(hashes, sample_ids, dup_filehashes, items, j) ==
    IF j > Len(sample_ids) THEN items
    ELSE FilehashToIds(hashes, sample_ids, dup_filehashes,
             IF hashes[sample_ids[j]] \in dup_filehashes
             THEN AppendId(items, hashes[sample_ids[j]], sample_ids[j])
             ELSE items,
             j + 1)

\* sum(len(ids) for ids in filehash_to_ids.values())
RECURSIVE SumOfSizes(_, _)
SumOfSizes(items, n) ==
    IF n > Len(items) THEN 0 ELSE Len(items[n][2]) + SumOfSizes(items, n + 1)

\* _process_exact_duplicates, were the duplicate hashes counted, not the
\* samples carrying them
ProcessExactDuplicatesCountsHashes(has_field, hashes) ==
    LET sample_ids == IF has_field THEN HashedIds(hashes, 1) ELSE <<>>
        dup_filehashes ==
            {k \in {hashes[sample_ids[j]] : j \in 1..Len(sample_ids)} :
                FilehashCount(hashes, sample_ids, k) > 1}
        items == IF dup_filehashes # {}
                 THEN FilehashToIds(hashes, sample_ids, dup_filehashes, <<>>, 1)
                 ELSE <<>>
    IN  [dup_filehashes |-> dup_filehashes,
         dup_sample_ids |-> items,
         num_duplicates |-> Len(items)]

\* _process_exact_duplicates, were the samples without a hash not left out
ProcessExactDuplicatesKeepsNone(has_field, hashes) ==
    LET sample_ids == [i \in 1..Len(hashes) |-> i]
        dup_filehashes ==
            {k \in {hashes[sample_ids[j]] : j \in 1..Len(sample_ids)} :
                FilehashCount(hashes, sample_ids, k) > 1}
        items == IF dup_filehashes # {}
                 THEN FilehashToIds(hashes, sample_ids, dup_filehashes, <<>>, 1)
                 ELSE <<>>
    IN  [dup_filehashes |-> dup_filehashes,
         dup_sample_ids |-> items,
         num_duplicates |-> SumOfSizes(items, 1)]

\* _process_exact_duplicates on a dataset whose sample i carries hashes[i]:
\* the duplicate hashes (a list built from a set: in no order), the groups
\* and the number of duplicates
ProcessExactDuplicates(has_field, hashes) ==
    LET sample_ids == IF has_field THEN HashedIds(hashes, 1) ELSE <<>>
        dup_filehashes ==
            {k \in {hashes[sample_ids[j]] : j \in 1..Len(sample_ids)} :
                FilehashCount(hashes, sample_ids, k) > 1}
        items == IF dup_filehashes # {}
                 THEN FilehashToIds(hashes, sample_ids, dup_filehashes, <<>>, 1)
                 ELSE <<>>
    IN  [dup_filehashes |-> dup_filehashes,
         dup_sample_ids |-> items,
         num_duplicates |-> SumOfSizes(items, 1)]

\* _process_exact_duplicates: the hashes carried by at least two samples
DupFilehashes(f) ==
    {h \in {HashOf(i) : i \in SamplesWith(f)} :
        Cardinality({i \in SamplesWith(f) : HashOf(i) = h}) > 1}

\* _process_exact_duplicates: num_duplicates
NumDuplicates(f) ==
    Cardinality({i \in SamplesWith(f) : HashOf(i) \in DupFilehashes(f)})

-----------------------------------------------------------------------------
(* Handlers, as functions of the machine m = [store, panel, exc] *)

Raise(m, e) == [m EXCEPT !.exc = e]

\* get_plot_defaults: [exc, lo, hi]
GetPlotDefaults(m, it, method) ==
    LET cfg == m.panel.issue_config[it]
        f == fld[it]
    IN  IF QueryError(f) # "none"
        THEN [exc |-> QueryError(f), lo |-> NoneVal, hi |-> NoneVal]
        ELSE IF cfg.min = NoneVal \/ cfg.max = NoneVal
        THEN [exc |-> "TypeError", lo |-> NoneVal, hi |-> NoneVal]
        ELSE LET r == PlotDefaults(cfg.min, cfg.max, method,
                                   BoundsMin(f), BoundsMax(f))
             IN  [exc |-> "none", lo |-> r[1], hi |-> r[2]]

\* change_computing_status
ChangeComputingStatus(m, it, is_computing, execution_type, delegation_run_id, delegation_status, issue_status) ==
    LET computing_copy ==
            [m.panel.computing EXCEPT ![it] =
                [is_computing |-> is_computing,
                 execution_type |-> execution_type,
                 delegation_run_id |-> delegation_run_id,
                 delegation_status |-> delegation_status]]
    IN  [m EXCEPT !.panel.computing = computing_copy,
                  !.store.computing = computing_copy,
                  !.store.status[it] =
                      IF issue_status \in Statuses THEN issue_status ELSE @]

\* _get_issue_status
GetIssueStatus(m, it) ==
    IF m.store.exists THEN m.store.status[it] ELSE NOT_COMPUTED

\* should_reset_issue
ShouldResetIssue(m, it) ==
    /\ GetIssueStatus(m, it) \in {NEEDS_REVIEW, REVIEWED}
    /\ CountWith(fld[it]) = 0

\* reset_issue
ResetIssue(m, it) ==
    LET m1 == ChangeComputingStatus(m, it, FALSE, "", "", "", NOT_COMPUTED)
    IN  [m1 EXCEPT !.store.results[it] = DefaultResults,
                   !.store.last_scan[it] = DefaultLastScan]

\* change_view
ChangeView(m, it) ==
    LET content == IF m.store.status[it] = NOT_COMPUTED
                   THEN [m.store EXCEPT !.status[it] = NEEDS_REVIEW]
                   ELSE m.store
        lo == m.panel.hist_lower_thresh
        hi == m.panel.hist_upper_thresh
    IN  IF it # "exact_duplicates" /\ (Truthy(lo) \/ Truthy(hi))
        THEN [m EXCEPT !.store =
                 [content EXCEPT !.current_counts[it] = CountIn(fld[it], lo, hi)],
                       !.panel.issue_counts[it] = CountIn(fld[it], lo, hi)]
        ELSE IF it = "exact_duplicates" /\ HasField(fld[it])
        THEN [m EXCEPT !.store =
                 [content EXCEPT !.current_counts[it] = content.counts[it]],
                       !.panel.issue_counts[it] = content.counts[it]]
        ELSE m

\* set_hist_defaults
SetHistDefaults(m) ==
    LET field == m.panel.issue_type
        d == GetPlotDefaults(m, field, m.panel.issue_config[field].detect_method)
    IN  IF m.panel.hist_lower_thresh = NoneVal \/ m.panel.hist_upper_thresh = NoneVal
        THEN IF d.exc # "none"
             THEN Raise(m, d.exc)
             ELSE [m EXCEPT !.panel.hist_lower_thresh = d.lo,
                            !.panel.hist_upper_thresh = d.hi]
        ELSE m

\* _process_issue_computation, lines 943-972: last scan, new-sample tracker,
\* computing record, once the results are in content
FinishComputation(m, content, it) ==
    LET c2 == [content EXCEPT !.last_scan[it] =
                  [timestamp |-> now, dataset_size |-> DatasetSize]]
        ns == m.panel.new_samples[it]
        m2 == [m EXCEPT !.store = c2,
                        !.panel.new_samples[it] =
                            IF ns.count > 0 /\ ns.rescan
                            THEN [count |-> 0, checked |-> TRUE, rescan |-> TRUE]
                            ELSE @]
        computing_field == content.computing[it]
    IN  ChangeComputingStatus(m2, it, FALSE, computing_field.execution_type,
                              computing_field.delegation_run_id, "", NEEDS_REVIEW)

\* _process_issue_computation up to, not including, its closing navigation
ProcessCore(m, it) ==
    LET content == m.store
        f == fld[it]
        d == GetPlotDefaults(m, it, m.panel.issue_config[it].detect_method)
    IN  IF it = "exact_duplicates"
        THEN FinishComputation(m,
                 [content EXCEPT !.results[it] =
                                     [has |-> FALSE, data |-> DupFilehashes(f)],
                                 !.counts[it] = NumDuplicates(f)], it)
        ELSE IF QueryError(f) # "none" THEN Raise(m, QueryError(f))
        ELSE IF d.exc # "none" THEN Raise(m, d.exc)
        ELSE FinishComputation(m,
                 [content EXCEPT !.results[it] =
                                     [has |-> TRUE,
                                      data |-> {ValueOf(i) : i \in SamplesWith(f)}],
                                 !.counts[it] = CountIn(f, d.lo, d.hi)], it)

\* navigate_to_screen, lines 262-271: the except clause, else change_view
AnalysisOpened(m, it) ==
    IF m.exc = "none" THEN ChangeView(m, it)
    ELSE IF m.exc = "ValueError" /\ ShouldResetIssue(m, it)
    THEN [ResetIssue(Raise(m, "none"), it)
             EXCEPT !.panel.screen = "pre_load_compute"]
    ELSE m

\* AnalysisStatus at fault: opening the analysis marks the issue reviewed
AnalysisStatusReviewed(m, it) ==
    AnalysisOpened(
        IF m.exc = "none" /\ GetIssueStatus(m, it) # REVIEWED
        THEN ChangeComputingStatus(m, it, FALSE, "", "", "", REVIEWED)
        ELSE m,
        it)

\* navigate_to_screen, lines 255-261: an issue not yet reviewed needs review
AnalysisStatus(m, it) ==
    AnalysisOpened(
        IF m.exc = "none" /\ GetIssueStatus(m, it) # REVIEWED
        THEN ChangeComputingStatus(m, it, FALSE, "", "", "", NEEDS_REVIEW)
        ELSE m,
        it)

\* navigate_to_screen, lines 251-253: the histogram thresholds
AnalysisDefaults(m, it) ==
    AnalysisStatus(
        IF m.exc = "none" /\ it # "exact_duplicates"
        THEN SetHistDefaults(m) ELSE m,
        it)

\* navigate_to_screen, its parameters resolved against ctx.params
NavigateToScreen(m, it, next_screen, recompute) ==
    LET m1 == [m EXCEPT !.panel.issue_type = it,
                        !.panel.screen = next_screen,
                        !.panel.first_open = FALSE]
    IN  IF next_screen = "home"
        THEN [m1 EXCEPT !.panel.hist_lower_thresh = NoneVal,
                        !.panel.hist_upper_thresh = NoneVal,
                        !.panel.issue_type = None]
        ELSE IF next_screen = "analysis"
        THEN AnalysisDefaults(IF recompute THEN ProcessCore(m1, it) ELSE m1, it)
        ELSE m1

\* _process_issue_computation, lines 974-977: the closing navigation
ProcessedView(m, it, recompute) ==
    IF m.exc = "none" /\ ~recompute
    THEN NavigateToScreen(m, it, "analysis", FALSE)
    ELSE m

\* _process_issue_computation
ProcessIssueComputation(m, it, recompute) ==
    ProcessedView(ProcessCore(m, it), it, recompute)

\* _change_issue_status
ChangeIssueStatus(m, it, status) ==
    [m EXCEPT !.store.status[it] = status,
              !.panel.alert = IF status = REVIEWED THEN "reviewed"
                              ELSE IF status = NEEDS_REVIEW THEN "in_review"
                              ELSE @]

\* MarkAsReviewed at fault: the alert is shown, the status is not stored
MarkAsReviewedAlertOnly(m) ==
    [m EXCEPT !.panel.alert = "reviewed"]

\* mark_as_reviewed
MarkAsReviewed(m) ==
    [m EXCEPT !.store.status[m.panel.issue_type] = REVIEWED,
              !.panel.alert = "reviewed"]

\* mark_as_reviewed_in_modal
MarkAsReviewedInModal(m) ==
    NavigateToScreen(MarkAsReviewed(m), None, "home", FALSE)

\* on_change_set_threshold
OnChangeSetThreshold(m, value) ==
    LET it == m.panel.issue_type
        content == m.store
    IN  IF value = "Save Threshold"
        THEN LET c1 == [content EXCEPT
                           !.config[it].min = m.panel.hist_lower_thresh,
                           !.config[it].max = m.panel.hist_upper_thresh,
                           !.counts[it] = content.current_counts[it]]
             IN  [m EXCEPT !.store = c1, !.panel.issue_config = c1.config]
        ELSE IF value = "Reset Threshold"
        THEN LET config == [content.config EXCEPT ![it] = DefaultIssueConfig[it]]
                 m1 == [m EXCEPT !.panel.issue_config = config]
                 d == GetPlotDefaults(m1, it, config[it].detect_method)
             IN  IF d.exc # "none" THEN Raise(m1, d.exc)
                 ELSE ChangeView(
                        [m1 EXCEPT !.panel.hist_lower_thresh = d.lo,
                                   !.panel.hist_upper_thresh = d.hi,
                                   !.store = [content EXCEPT
                                       !.config = config,
                                       !.counts[it] = CountIn(fld[it], d.lo, d.hi)]],
                        it)
        ELSE m

\* slider_change
SliderChange(m, lo, hi) ==
    ChangeView([m EXCEPT !.panel.hist_lower_thresh = lo,
                         !.panel.hist_upper_thresh = hi],
               m.panel.issue_type)

\* check_for_new_samples, the body of its loop for one issue type, missing
\* being what len(ctx.dataset.exists(field_name, bool=False)) answers when it
\* is asked: [tracker, reset], reset telling that the status is forced to
\* NOT_COMPUTED
NewSamplesGiven(m, it, missing) ==
    LET prev_res == m.store.results[it]
        ts == m.panel.last_scan[it].timestamp
        keep == [tracker |-> m.panel.new_samples[it], reset |-> FALSE]
    IN  IF it # "exact_duplicates" /\ ~prev_res.has THEN keep
        ELSE IF m.panel.new_samples[it].checked THEN keep
        ELSE IF ts = NoneVal \/ lastMod <= ts
        THEN [tracker |-> [count |-> 0, checked |-> TRUE, rescan |-> FALSE],
              reset |-> FALSE]
        ELSE IF missing > 0
        THEN [tracker |-> [count |-> missing, checked |-> TRUE, rescan |-> FALSE],
              reset |-> missing = DatasetSize]
        ELSE [tracker |-> [count |-> 0, checked |-> TRUE, rescan |-> FALSE],
              reset |-> FALSE]

\* NewSamplesOf at fault: a dataset without any computed value is not reset
NewSamplesNeverReset(m, it) ==
    [tracker |-> NewSamplesGiven(m, it, CountWithout(fld[it])).tracker,
     reset |-> FALSE]

\* NewSamplesOf at fault: the samples lacking the field are always counted
NewSamplesAlwaysCounted(m, it) ==
    NewSamplesGiven([m EXCEPT !.panel.last_scan[it].timestamp = 0 - 2], it,
                    CountWithout(fld[it]))

\* check_for_new_samples, the body of its loop with the dataset's answer
NewSamplesOf(m, it) ==
    NewSamplesGiven(m, it, CountWithout(fld[it]))

\* CheckForNewSamples at fault: the session flag is never cleared
CheckForNewSamplesForever(m) ==
    LET trackers == [it \in IssueTypes |-> NewSamplesOf(m, it).tracker]
    IN  [m EXCEPT
            !.panel.new_samples = trackers,
            !.store.status = [it \in IssueTypes |->
                                 IF NewSamplesOf(m, it).reset
                                 THEN NOT_COMPUTED ELSE m.store.status[it]]]

\* check_for_new_samples
CheckForNewSamples(m) ==
    LET trackers == [it \in IssueTypes |-> NewSamplesOf(m, it).tracker]
    IN  [m EXCEPT
            !.panel.new_samples = trackers,
            !.store.status = [it \in IssueTypes |->
                                 IF NewSamplesOf(m, it).reset
                                 THEN NOT_COMPUTED ELSE m.store.status[it]],
            !.panel.new_sample_scan =
                IF \A it \in IssueTypes : trackers[it].checked THEN FALSE ELSE @]

\* _rescan_samples
RescanSamples(m) ==
    NavigateToScreen(
        ChangeComputingStatus(m, m.panel.issue_type, FALSE, "", "", "", None),
        m.panel.issue_type, "pre_load_compute", FALSE)

\* _on_compute_option_selected
OnComputeOptionSelected(m, it, dropdown_value, run_id) ==
    LET ns == m.panel.new_samples[it]
        m1 == IF ns.count > 0
              THEN [m EXCEPT !.panel.new_samples[it].rescan = TRUE]
              ELSE m
    IN  IF it = None THEN Raise(m, "KeyError")
        ELSE IF dropdown_value = "execute"
        THEN ChangeComputingStatus(m1, it, TRUE, "execute", "", "", COMPUTING)
        ELSE IF dropdown_value \in {"delegate", "delegate_execution"}
        THEN ChangeComputingStatus(m1, it, TRUE, "delegate_execution",
                                   run_id, "", COMPUTING)
        ELSE m1

\* computation_handler; run_id is None for an immediate execution
ComputationHandler(m, it, check_existing_field, run_id) ==
    IF check_existing_field /\ CountWithout(fld[it]) = 0
    THEN ProcessIssueComputation(
             ChangeComputingStatus(m, it, TRUE, "execute", "", "", None),
             it, FALSE)
    ELSE IF run_id # None
    THEN ChangeComputingStatus(
             [m EXCEPT !.store.status[it] = COMPUTING],
             it, TRUE, "delegate_execution", run_id, "", None)
    ELSE ProcessIssueComputation(m, it, FALSE)

\* _on_success_near_duplicates
OnSuccessNearDuplicates(m, run_id) ==
    IF run_id # None
    THEN OnComputeOptionSelected(m, m.panel.issue_type, "delegate", run_id)
    ELSE LET a == OnComputeOptionSelected(m, m.panel.issue_type, "execute", "")
         IN  IF a.exc # "none" THEN a
             ELSE ProcessIssueComputation(a, "near_duplicates", FALSE)

\* CancelCompute at fault: the issue is reset, results and last scan included
CancelComputeResets(m, it) ==
    IF it # None
    THEN ResetIssue(m, it)
    ELSE m

\* cancel_compute
CancelCompute(m, it) ==
    IF it # None
    THEN ChangeComputingStatus(m, it, FALSE, "", "", "", NOT_COMPUTED)
    ELSE m

\* FailedRun at fault: the status is reset after the fallback, not before it
FailedRunResetLast(m, it) ==
    IF m.exc = "none"
    THEN ChangeComputingStatus(m, it, FALSE, "", "", "", NOT_COMPUTED)
    ELSE IF m.panel.issue_type = it
    THEN NavigateToScreen(
             [m EXCEPT !.exc = "none",
                       !.panel.alert = "computation_failed_" \o it],
             it, "home", FALSE)
    ELSE [m EXCEPT !.exc = "none", !.panel.alert = "computation_failed_" \o it]

\* FailedRun at fault: what the fallback raised is not caught
FailedRunUncaught(m, it) == m

\* check_computing_status, lines 1062-1071: the fallback of a failed run has
\* ended in m; what it raised is caught
FailedRun(m, it) ==
    LET alerted == [m EXCEPT !.exc = "none",
                             !.panel.alert = "computation_failed_" \o it]
    IN  IF m.exc = "none" THEN m
        ELSE IF m.panel.issue_type = it
        THEN NavigateToScreen(alerted, it, "home", FALSE)
        ELSE alerted

\* check_computing_status, lines 1086-1093: the results of a completed run
\* are in m; the user waiting on the scan screen is taken to them
CompletedRun(m, it) ==
    IF /\ m.exc = "none"
       /\ m.panel.issue_type = it
       /\ m.panel.screen = "pre_load_compute"
    THEN NavigateToScreen(m, it, "analysis", FALSE)
    ELSE m

\* ImmediateRun at fault: the run is given up at ten minutes, not after them
ImmediateRunEarly(m, it) ==
    LET stored == m.store.last_scan[it].timestamp
        last_scan_timestamp == IF stored = NoneVal THEN now ELSE stored
        m0 == IF stored = NoneVal
              THEN [m EXCEPT !.store.last_scan[it].timestamp = now]
              ELSE m
    IN  IF now >= last_scan_timestamp + Timeout
        THEN ChangeComputingStatus(m0, it, FALSE, "", "", "", NOT_COMPUTED)
        ELSE m0

\* ImmediateRun at fault: no run is ever abandoned
ImmediateRunForever(m, it) ==
    LET stored == m.store.last_scan[it].timestamp
    IN  IF stored = NoneVal
        THEN [m EXCEPT !.store.last_scan[it].timestamp = now]
        ELSE m

\* check_computing_status, lines 1024-1045: a run that is not delegated
ImmediateRun(m, it) ==
    LET stored == m.store.last_scan[it].timestamp
        last_scan_timestamp == IF stored = NoneVal THEN now ELSE stored
        m0 == IF stored = NoneVal
              THEN [m EXCEPT !.store.last_scan[it].timestamp = now]
              ELSE m
    IN  IF now > last_scan_timestamp + Timeout
        THEN ChangeComputingStatus(m0, it, FALSE, "", "", "", NOT_COMPUTED)
        ELSE m0

\* DelegatedRun at fault: a run in progress is taken for one that has stopped
DelegatedRunStops(m, it, run_id, delegated_state) ==
    IF run_id = "" \/ delegated_state = "error"
    THEN ChangeComputingStatus(m, it, FALSE, "", "", "", NOT_COMPUTED)
    ELSE IF delegated_state = "failed"
    THEN FailedRun(
             ProcessIssueComputation(
                 ChangeComputingStatus(m, it, FALSE, "", "", "", NOT_COMPUTED),
                 it, FALSE),
             it)
    ELSE IF delegated_state = "completed"
    THEN CompletedRun(
             ProcessIssueComputation(
                 ChangeComputingStatus(m, it, FALSE, "delegate_execution",
                                       run_id, "completed", NEEDS_REVIEW),
                 it, TRUE),
             it)
    ELSE IF delegated_state # None
    THEN ChangeComputingStatus(m, it, FALSE, "delegate_execution", run_id,
                               delegated_state, None)
    ELSE m

\* check_computing_status, lines 1047-1102: a delegated run; delegated_state
\* is what the delegated-operation service answers: a run state, None, or
\* "error" when the lookup raises
DelegatedRun(m, it, run_id, delegated_state) ==
    IF run_id = "" \/ delegated_state = "error"
    THEN ChangeComputingStatus(m, it, FALSE, "", "", "", NOT_COMPUTED)
    ELSE IF delegated_state = "failed"
    THEN FailedRun(
             ProcessIssueComputation(
                 ChangeComputingStatus(m, it, FALSE, "", "", "", NOT_COMPUTED),
                 it, FALSE),
             it)
    ELSE IF delegated_state = "completed"
    THEN CompletedRun(
             ProcessIssueComputation(
                 ChangeComputingStatus(m, it, FALSE, "delegate_execution",
                                       run_id, "completed", NEEDS_REVIEW),
                 it, TRUE),
             it)
    ELSE IF delegated_state # None
    THEN ChangeComputingStatus(m, it, TRUE, "delegate_execution", run_id,
                               delegated_state, None)
    ELSE m

\* CheckComputingStatus at fault: a call without an issue type is ignored
CheckComputingStatusLenient(m, it, run_id, delegated_state) ==
    IF it = None THEN m
    ELSE IF m.store.computing[it].execution_type # "delegate_execution"
    THEN ImmediateRun(m, it)
    ELSE DelegatedRun(m, it, run_id, delegated_state)

\* CheckComputingStatus at fault: the timeout is applied to every run
CheckComputingStatusAllTimed(m, it, run_id, delegated_state) ==
    IF it = None THEN Raise(m, "Exception")
    ELSE IF m.store.computing[it].execution_type # "delegate_execution"
            \/ delegated_state \in {"scheduled", "running"}
    THEN ImmediateRun(m, it)
    ELSE DelegatedRun(m, it, run_id, delegated_state)

\* check_computing_status
CheckComputingStatus(m, it, run_id, delegated_state) ==
    IF it = None THEN Raise(m, "Exception")
    ELSE IF m.store.computing[it].execution_type # "delegate_execution"
    THEN ImmediateRun(m, it)
    ELSE DelegatedRun(m, it, run_id, delegated_state)

\* the panel state a session starts from: on_load, lines 108-114 and 146-153
FreshPanel ==
    [loaded |-> FALSE,
     screen |-> "home",
     issue_type |-> None,
     alert |-> "",
     first_open |-> FALSE,
     new_sample_scan |-> TRUE,
     issue_config |-> DefaultIssueConfig,
     issue_counts |-> [it \in IssueTypes |-> 0],
     computing |-> [it \in IssueTypes |-> DefaultComputing],
     last_scan |-> [it \in IssueTypes |-> DefaultLastScan],
     new_samples |-> [it \in IssueTypes |->
                         [count |-> 0, checked |-> FALSE, rescan |-> FALSE]],
     hist_lower_thresh |-> NoneVal,
     hist_upper_thresh |-> NoneVal]

\* OnLoad at fault: the default record is written whatever the store holds
OnLoadRewrites(m) ==
    [m EXCEPT !.store = SampleStore,
              !.panel = [FreshPanel EXCEPT !.loaded = TRUE,
                                           !.first_open = ~m.store.exists]]

\* OnLoad at fault: a session always starts from DEFAULT_COMPUTING
OnLoadDefaults(m) ==
    LET content == m.store
    IN  IF ~content.exists
        THEN [m EXCEPT !.store = SampleStore,
                       !.panel = [FreshPanel EXCEPT !.loaded = TRUE,
                                                    !.first_open = TRUE]]
        ELSE [m EXCEPT !.panel = [FreshPanel EXCEPT
                                     !.loaded = TRUE,
                                     !.issue_config = content.config,
                                     !.issue_counts = content.counts,
                                     !.last_scan = content.last_scan]]

\* on_load
OnLoad(m) ==
    LET content == m.store
    IN  IF ~content.exists
        THEN [m EXCEPT !.store = SampleStore,
                       !.panel = [FreshPanel EXCEPT !.loaded = TRUE,
                                                    !.first_open = TRUE]]
        ELSE [m EXCEPT !.panel = [FreshPanel EXCEPT
                                     !.loaded = TRUE,
                                     !.issue_config = content.config,
                                     !.issue_counts = content.counts,
                                     !.computing = content.computing,
                                     !.last_scan = content.last_scan]]

\* OnUnload at fault: the stored computing record is left as the store has it
OnUnloadKeeps(m) ==
    [m EXCEPT !.panel.loaded = FALSE]

\* on_unload
OnUnload(m) ==
    LET content == m.store
    IN  [m EXCEPT !.store = IF content.exists
                            THEN [content EXCEPT !.computing = m.panel.computing]
                            ELSE content,
                  !.panel.loaded = FALSE]

-----------------------------------------------------------------------------
(* The state machine *)

Idle == [it |-> None, opt |-> "", phase |-> "idle"]

NoEvent ==
    [op |-> "none", it |-> None, arg |-> "", pre |-> None, viewed |-> FALSE,
     exc |-> "none"]

\* no helper has been called on its own
NoCall == [fn |-> "none", args |-> <<>>, method |-> "", out |-> <<>>, again |-> FALSE]

\* the issue types one behaviour works on: each type alone
Foci == {{it} : it \in IssueTypes}

Init ==
    /\ focus \in Foci
    /\ store = NoStore
    /\ panel = FreshPanel
    /\ other = FreshPanel
    /\ fld = [it \in IssueTypes |-> "missing"]
    /\ lastMod = 0
    /\ now = 0
    /\ op = Idle
    /\ scanStart = [it \in IssueTypes |-> NoneVal]
    /\ written = {}
    /\ last = NoEvent
    /\ user = "EDIT"
    /\ call = NoCall

\* the machine a handler starts from
Cur == [store |-> store, panel |-> panel, exc |-> "none"]

\* the moment each issue type's status became COMPUTING, after a handler
ScanStartAfter(m) ==
    [it \in IssueTypes |->
        IF m.store.status[it] # COMPUTING THEN NoneVal
        ELSE IF store.status[it] = COMPUTING THEN scanStart[it]
        ELSE now]

\* a handler has run to m: what it wrote stays, what it raised reaches the host
Handled(m, name, it, arg) ==
    /\ store' = m.store
    /\ panel' = m.panel
    /\ other' = other
    /\ scanStart' = ScanStartAfter(m)
    /\ focus' = focus
    /\ user' = user
    /\ call' = call
    /\ last' = [op |-> name, it |-> it, arg |-> arg,
                pre |-> IF it \in IssueTypes THEN store.status[it] ELSE None,
                viewed |-> it \in IssueTypes /\ panel.issue_type = it,
                exc |-> m.exc]

\* render, lines 2330-2335: the panel draws its screens
Rendered == panel.loaded /\ store.exists
MainRendered == Rendered /\ ~panel.first_open

\* missing_min_access_required
MissingMinAccessRequired(min_required_dataset_access) ==
    IF user = None THEN FALSE
    ELSE IF min_required_dataset_access = "TAG"
    THEN user \notin {"TAG", "EDIT", "MANAGE"}
    ELSE IF min_required_dataset_access = "EDIT"
    THEN user \notin {"EDIT", "MANAGE"}
    ELSE TRUE

\* _render_header: the back button is the leave-without-review modal
ReviewWarning ==
    /\ MainRendered
    /\ panel.screen = "analysis"
    /\ panel.issue_type \in IssueTypes
    /\ GetIssueStatus(Cur, panel.issue_type) = NEEDS_REVIEW
    /\ ~MissingMinAccessRequired("EDIT")

\* _render_issue_navigation: [next_screen, recompute] of the card's arrow
IssueNavigation(it) ==
    LET last_scan_timestamp == panel.last_scan[it].timestamp
        last_scan == store.last_scan[it]
        last_dataset_size == IF panel.last_scan[it].dataset_size = NoneVal
                             THEN 0 ELSE panel.last_scan[it].dataset_size
        ns == panel.new_samples[it]
        scanned == /\ (last_scan_timestamp # NoneVal \/ last_scan.timestamp # NoneVal)
                   /\ DatasetSize # ns.count
    IN  [next_screen |-> IF scanned THEN "analysis" ELSE "pre_load_compute",
         recompute |-> /\ scanned
                       /\ ns.checked
                       /\ (ns.count = 0 \/ last_dataset_size >= DatasetSize)]

LoadPanel ==
    /\ ~panel.loaded
    /\ Handled(OnLoad(Cur), "on_load", None, "")
    /\ UNCHANGED <<fld, lastMod, now, op, written>>

UnloadPanel ==
    /\ panel.loaded
    /\ store' = OnUnload(Cur).store
    /\ panel' = FreshPanel
    /\ last' = [NoEvent EXCEPT !.op = "on_unload"]
    /\ user' = user
    /\ call' = call
    /\ op' = Idle
    /\ UNCHANGED <<other, fld, lastMod, now, scanStart, focus, written>>

GetStarted ==
    /\ Rendered /\ panel.first_open
    /\ Handled(NavigateToScreen(Cur, None, "home", FALSE), "navigate_to_screen",
               None, "home")
    /\ UNCHANGED <<fld, lastMod, now, op, written>>

OpenIssue(it) ==
    /\ MainRendered
    /\ panel.screen = "home"
    /\ Handled(NavigateToScreen(Cur, it, IssueNavigation(it).next_screen,
                                IssueNavigation(it).recompute),
               "navigate_to_screen", it, IssueNavigation(it).next_screen)
    /\ UNCHANGED <<fld, lastMod, now, op, written>>

BackButton ==
    /\ MainRendered
    /\ panel.screen \in {"pre_load_compute", "analysis"}
    /\ ~ReviewWarning
    /\ Handled(NavigateToScreen(Cur, None, "home", FALSE), "navigate_to_screen",
               panel.issue_type, "home")
    /\ UNCHANGED <<fld, lastMod, now, op, written>>

LeaveNotReady ==
    /\ ReviewWarning
    /\ Handled(NavigateToScreen(Cur, None, "home", FALSE), "navigate_to_screen",
               panel.issue_type, "home")
    /\ UNCHANGED <<fld, lastMod, now, op, written>>

LeaveMarkReviewed ==
    /\ ReviewWarning
    /\ Handled(MarkAsReviewedInModal(Cur), "mark_as_reviewed_in_modal",
               panel.issue_type, "")
    /\ UNCHANGED <<fld, lastMod, now, op, written>>

CompleteDelegation ==
    /\ MainRendered
    /\ panel.screen = "pre_load_compute"
    /\ panel.computing[panel.issue_type].delegation_status = "completed"
    /\ ~MissingMinAccessRequired("EDIT")
    /\ Handled(NavigateToScreen(Cur, panel.issue_type, "analysis", FALSE),
               "navigate_to_screen", panel.issue_type, "analysis")
    /\ UNCHANGED <<fld, lastMod, now, op, written>>

StatusBadge(value) ==
    /\ MainRendered
    /\ panel.screen = "analysis"
    /\ GetIssueStatus(Cur, panel.issue_type) \in {NEEDS_REVIEW, REVIEWED}
    /\ ~MissingMinAccessRequired("EDIT")
    /\ Handled(ChangeIssueStatus(Cur, panel.issue_type, value),
               "_change_issue_status", panel.issue_type, value)
    /\ UNCHANGED <<fld, lastMod, now, op, written>>

\* the values a double slider can be set to: the scale of a fully populated field
ThresholdVals == 0..ValueOf(DatasetSize)

\* the thresholds a user saves lie on the slider's scale (a pair resolved
\* beyond it is not saved again, which keeps the thresholds bounded)
ThresholdMenu(value) ==
    /\ MainRendered
    /\ panel.screen = "analysis"
    /\ panel.issue_type # "exact_duplicates"
    /\ ~MissingMinAccessRequired("EDIT")
    /\ value = "Save Threshold"
          => {panel.hist_lower_thresh, panel.hist_upper_thresh} \subseteq ThresholdVals
    /\ Handled(OnChangeSetThreshold(Cur, value), "on_change_set_threshold",
               panel.issue_type, value)
    /\ UNCHANGED <<fld, lastMod, now, op, written>>

Slider(lo, hi) ==
    /\ MainRendered
    /\ panel.screen = "analysis"
    /\ panel.issue_type # "exact_duplicates"
    /\ QueryError(fld[panel.issue_type]) = "none"
    /\ BoundsMin(fld[panel.issue_type]) <= lo
    /\ lo <= hi
    /\ hi <= BoundsMax(fld[panel.issue_type])
    /\ Handled(SliderChange(Cur, lo, hi), "slider_change", panel.issue_type, "")
    /\ UNCHANGED <<fld, lastMod, now, op, written>>

Rescan ==
    /\ MainRendered
    /\ panel.screen = "analysis"
    /\ panel.new_samples[panel.issue_type].count > 0
    /\ ~MissingMinAccessRequired("EDIT")
    /\ Handled(RescanSamples(Cur), "_rescan_samples", panel.issue_type, "")
    /\ UNCHANGED <<fld, lastMod, now, op, written>>

\* pre_load_compute_screen: the scan button is drawn and enabled
ScanButton(it) ==
    /\ MainRendered
    /\ panel.screen = "pre_load_compute"
    /\ panel.issue_type = it
    /\ panel.computing[it].delegation_status # "completed"
    /\ ~panel.computing[it].is_computing
    /\ ~MissingMinAccessRequired("EDIT")
    /\ op = Idle

\* OperatorExecutionButtonView: an execution option is chosen, the handler
\* runs, and the host starts the operator
SelectOption(it, opt) ==
    /\ it # "near_duplicates"
    /\ ScanButton(it)
    /\ Handled(OnComputeOptionSelected(Cur, it, opt, ""),
               "_on_compute_option_selected", it, opt)
    /\ op' = [it |-> it, opt |-> opt, phase |-> "running"]
    /\ UNCHANGED <<fld, lastMod, now, written>>

\* compute_near_duplicates: ctx.prompt starts the operator
ComputeNearDuplicates(opt) ==
    /\ ScanButton("near_duplicates")
    /\ Handled(Cur, "compute_near_duplicates", "near_duplicates", opt)
    /\ op' = [it |-> "near_duplicates", opt |-> opt, phase |-> "running"]
    /\ UNCHANGED <<fld, lastMod, now, written>>

\* an immediate execution of the operator writes the field of every sample
OperatorRuns ==
    /\ op.phase = "running"
    /\ op.opt = "execute"
    /\ fld' = [fld EXCEPT ![op.it] = "full"]
    /\ lastMod' = now
    /\ op' = [op EXCEPT !.phase = "done"]
    /\ last' = NoEvent
    /\ user' = user
    /\ call' = call
    /\ UNCHANGED <<store, panel, other, now, scanStart, focus, written>>

\* the operator ends well (an immediate execution has written the field of
\* every sample, a delegated one is queued) and on_success is called
OperatorSucceeds(check_existing_field) ==
    /\ op.phase = IF op.opt = "execute" THEN "done" ELSE "running"
    /\ panel.loaded
    /\ LET it == op.it
           run_id == IF op.opt = "execute" THEN None ELSE RunId
       IN  IF it = "near_duplicates"
           THEN Handled(OnSuccessNearDuplicates(Cur, run_id),
                        "_on_success_near_duplicates", it, op.opt)
           ELSE Handled(ComputationHandler(Cur, it, check_existing_field, run_id),
                        "computation_handler", it, op.opt)
    /\ written' = IF op.opt = "execute" THEN written ELSE written \ {op.it}
    /\ op' = Idle
    /\ UNCHANGED <<fld, lastMod, now>>

\* the operator ends in an error and on_error is called
OperatorFails ==
    /\ op.phase = "running"
    /\ panel.loaded
    /\ Handled(CancelCompute(Cur, IF op.it = "near_duplicates" THEN None ELSE op.it),
               "cancel_compute", op.it,
               IF op.it = "near_duplicates" THEN None ELSE op.it)
    /\ op' = Idle
    /\ UNCHANGED <<fld, lastMod, now, written>>

\* render, lines 2356-2364: the new-sample timer
NewSampleTimer ==
    /\ Rendered
    /\ panel.new_sample_scan
    /\ Handled(CheckForNewSamples(Cur), "check_for_new_samples", None,
               IF \E it \in focus :
                      /\ ~panel.new_samples[it].checked
                      /\ NewSamplesOf(Cur, it).tracker.checked
               THEN "checked" ELSE "")
    /\ UNCHANGED <<fld, lastMod, now, op, written>>

\* what the delegated-operation service may answer
DelegatedStates == {"scheduled", "running", "completed", "failed", "error", None}

\* render, lines 2366-2383: the polling timer of a computing issue type;
\* delegated_state is "" when the service is not asked (an immediate run);
\* the service answers completed once the run has written its field
Poll(it, delegated_state) ==
    /\ Rendered
    /\ panel.computing[it].is_computing
    /\ delegated_state = "completed" => it \in written
    /\ (delegated_state = "") <=>
           (store.computing[it].execution_type # "delegate_execution")
    /\ Handled(CheckComputingStatus(Cur, it, panel.computing[it].delegation_run_id,
                                    delegated_state),
               "check_computing_status", it, delegated_state)
    /\ UNCHANGED <<fld, lastMod, now, op, written>>

\* check_computing_status is called with params that name no issue type
PollNoIssueType ==
    /\ Rendered
    /\ Handled(CheckComputingStatus(Cur, None, "", ""),
               "check_computing_status", None, "")
    /\ UNCHANGED <<fld, lastMod, now, op, written>>

(* The collaborators *)

Tick ==
    /\ now < MaxTime
    /\ now' = now + 1
    /\ last' = NoEvent
    /\ user' = user
    /\ call' = call
    /\ UNCHANGED <<store, panel, other, fld, lastMod, op, scanStart, focus,
                   written>>

\* a run of the issue's operator outside the panel's handlers (a delegated
\* worker) writes the field of every sample
FieldPopulated(it) ==
    /\ fld[it] # "full"
    /\ fld' = [fld EXCEPT ![it] = "full"]
    /\ lastMod' = now
    /\ written' = written \cup {it}
    /\ last' = NoEvent
    /\ user' = user
    /\ call' = call
    /\ UNCHANGED <<store, panel, other, now, op, scanStart, focus>>

\* the field's values are cleared, or the field is deleted from the schema
FieldCleared(it, how) ==
    /\ fld[it] # how
    /\ fld' = [fld EXCEPT ![it] = how]
    /\ lastMod' = IF how = "empty" THEN now ELSE lastMod
    /\ last' = NoEvent
    /\ user' = user
    /\ call' = call
    /\ UNCHANGED <<store, panel, other, now, op, scanStart, focus, written>>

\* the newest sample is replaced by one that carries no computed field
NewSample ==
    /\ \E it \in focus : fld[it] = "full"
    /\ fld' = [it \in IssueTypes |-> IF fld[it] = "full" THEN "partial" ELSE fld[it]]
    /\ lastMod' = now
    /\ last' = NoEvent
    /\ user' = user
    /\ call' = call
    /\ UNCHANGED <<store, panel, other, now, op, scanStart, focus, written>>

\* the host hands the next event to the other session open on the dataset;
\* an operator's callback reaches the session that started the operator
SwitchSession ==
    /\ op = Idle
    /\ panel' = other
    /\ other' = panel
    /\ last' = NoEvent
    /\ user' = user
    /\ call' = call
    /\ UNCHANGED <<store, fld, lastMod, now, op, scanStart, focus, written>>

\* the user's clicks between the screens and on the review controls
Browsing ==
    \/ GetStarted
    \/ \E it \in focus : OpenIssue(it)
    \/ BackButton
    \/ LeaveNotReady
    \/ LeaveMarkReviewed

Navigation == Browsing \/ CompleteDelegation

\* a scan from its start to the callback of the operator
Scanning ==
    \/ \E it \in focus, opt \in {"execute", "delegate"} : SelectOption(it, opt)
    \/ \E opt \in {"execute", "delegate"} : ComputeNearDuplicates(opt)
    \/ OperatorRuns
    \/ \E c \in BOOLEAN : OperatorSucceeds(c)
    \/ OperatorFails

Polling == \E it \in focus, d \in DelegatedStates \cup {""} : Poll(it, d)

\* the dataset's fields are written and cleared by its editors
FieldEdits ==
    \/ \E it \in focus : FieldPopulated(it)
    \/ \E it \in focus, how \in {"empty", "missing"} : FieldCleared(it, how)

\* One session on one dataset, all of it within one tick of the clock.
Next ==
    \/ LoadPanel
    \/ Navigation
    \/ \E value \in {NEEDS_REVIEW, REVIEWED} : StatusBadge(value)
    \/ Scanning
    \/ Polling
    \/ NewSampleTimer
    \/ FieldEdits
    \/ NewSample

Spec == Init /\ [][Next]_vars

\* One session while the clock advances: scans, polls and their timeouts.
NextTimed ==
    \/ LoadPanel
    \/ Navigation
    \/ Scanning
    \/ Polling
    \/ FieldEdits
    \/ Tick

SpecTimed == Init /\ [][NextTimed]_vars

\* Sessions that end and start again while the clock advances and samples
\* arrive: the new-sample check and the rescan it offers.
NextSessions ==
    \/ LoadPanel
    \/ UnloadPanel
    \/ Browsing
    \/ \E value \in {NEEDS_REVIEW, REVIEWED} : StatusBadge(value)
    \/ Scanning
    \/ Polling
    \/ PollNoIssueType
    \/ NewSampleTimer
    \/ NewSample
    \/ Rescan
    \/ Tick

SpecSessions == Init /\ [][NextSessions]_vars

\* Sessions on a dataset whose samples come and go between the scans: the
\* new-sample check of each session.
NextArrivals ==
    \/ LoadPanel
    \/ UnloadPanel
    \/ Browsing
    \/ \E it \in focus : SelectOption(it, "execute")
    \/ ComputeNearDuplicates("execute")
    \/ OperatorRuns
    \/ OperatorSucceeds(FALSE)
    \/ NewSampleTimer
    \/ NewSample
    \/ \E it \in focus, how \in {"empty", "missing"} : FieldCleared(it, how)
    \/ Tick

SpecArrivals == Init /\ [][NextArrivals]_vars

\* A user who scans the issue types that need a scan before they are checked
\* for new samples (exact duplicates are checked without one), over several
\* sessions; time passes and samples arrive between the sessions.
InitEveryIssue ==
    /\ focus = {"brightness", "near_duplicates"}
    /\ store = NoStore
    /\ panel = FreshPanel
    /\ other = FreshPanel
    /\ fld = [it \in IssueTypes |-> "missing"]
    /\ lastMod = 0
    /\ now = 0
    /\ op = Idle
    /\ scanStart = [it \in IssueTypes |-> NoneVal]
    /\ written = {}
    /\ last = NoEvent
    /\ user = "EDIT"
    /\ call = NoCall

NextEveryIssue ==
    \/ LoadPanel
    \/ UnloadPanel
    \/ GetStarted
    \/ \E it \in focus : OpenIssue(it)
    \/ BackButton
    \/ LeaveNotReady
    \/ \E it \in focus : SelectOption(it, "execute")
    \/ ComputeNearDuplicates("execute")
    \/ OperatorRuns
    \/ OperatorSucceeds(FALSE)
    \/ NewSampleTimer
    \/ Rescan
    \/ ~panel.loaded /\ NewSample
    \/ ~panel.loaded /\ Tick

SpecEveryIssue == InitEveryIssue /\ [][NextEveryIssue]_vars

\* An immediate scan whose operator never calls back, the user waiting on the
\* screen of the scan: the polling timer of a computing issue type fires
\* every 15 seconds for as long as the panel is open, and time passes.
NextStuck ==
    \/ LoadPanel
    \/ GetStarted
    \/ \E it \in focus : OpenIssue(it)
    \/ \E it \in focus : SelectOption(it, "execute")
    \/ \E it \in focus : Poll(it, "")
    \/ FieldEdits
    \/ Tick

SpecStuck ==
    /\ Init
    /\ [][NextStuck]_vars
    /\ WF_vars(Tick)
    /\ \A it \in IssueTypes : WF_vars(Poll(it, ""))

\* Two sessions open on the same dataset, their event handlers interleaved.
NextShared ==
    \/ LoadPanel
    \/ UnloadPanel
    \/ SwitchSession
    \/ Browsing
    \/ \E value \in {NEEDS_REVIEW, REVIEWED} : StatusBadge(value)
    \/ Scanning
    \/ Polling

SpecShared == Init /\ [][NextShared]_vars

-----------------------------------------------------------------------------
(* Properties *)

\* the event handled by the step was a poll of issue type it
Polled(it) == last'.op = "check_computing_status" /\ last'.it = it

\* the poll of the step asked the service about a delegated run of it
PolledDelegated(it) ==
    /\ Polled(it)
    /\ store.computing[it].execution_type = "delegate_execution"
    /\ panel.computing[it].delegation_run_id # ""

\* the status edges of the specification's state diagram
SpecEdges ==
    {<<NOT_COMPUTED, COMPUTING>>, <<COMPUTING, NEEDS_REVIEW>>,
     <<COMPUTING, NOT_COMPUTED>>, <<NEEDS_REVIEW, REVIEWED>>,
     <<NEEDS_REVIEW, NOT_COMPUTED>>, <<REVIEWED, NOT_COMPUTED>>}

\* the edges the panel takes besides: opening the analysis of an issue not
\* started, reopening a review, rescanning a scanned issue
CodeEdges ==
    SpecEdges \cup
    {<<NOT_COMPUTED, NEEDS_REVIEW>>, <<REVIEWED, NEEDS_REVIEW>>,
     <<NEEDS_REVIEW, COMPUTING>>, <<REVIEWED, COMPUTING>>}

\* C1, amended: the persisted status of an issue type changes only along the
\* edges of the state diagram and along NOT_COMPUTED -> NEEDS_REVIEW,
\* REVIEWED -> NEEDS_REVIEW and {NEEDS_REVIEW, REVIEWED} -> COMPUTING; it
\* never becomes REVIEWED directly from NOT_COMPUTED or COMPUTING.
C1_StatusEdges ==
    [][\A it \in IssueTypes :
          store.status[it] # store'.status[it]
              => <<store.status[it], store'.status[it]>> \in CodeEdges]_vars

\* C1, witness: a navigation has taken a status from NOT_COMPUTED directly
\* to NEEDS_REVIEW
C1_DirectToReview ==
    /\ last.op = "navigate_to_screen"
    /\ last.it \in IssueTypes
    /\ last.pre = NOT_COMPUTED
    /\ store.status[last.it] = NEEDS_REVIEW

\* C1, as stated: the status changes only along the edges of the state
\* diagram, never directly from NOT_COMPUTED to NEEDS_REVIEW
C1_SpecEdgesOnly ==
    [][\A it \in IssueTypes :
          store.status[it] # store'.status[it]
              => <<store.status[it], store'.status[it]>> \in SpecEdges]_vars

\* C2: a poll of an issue type that is COMPUTING in a run that is not
\* delegated resets the status to NOT_COMPUTED and is_computing to false when
\* now is later than last_scan.timestamp + 10 minutes, leaves the status as
\* it is otherwise, and raises nothing.
C2_ImmediateTimeout ==
    [][\A it \in IssueTypes :
          /\ Polled(it)
          /\ store.status[it] = COMPUTING
          /\ store.computing[it].execution_type # "delegate_execution"
          => /\ last'.exc = "none"
             /\ IF /\ store.last_scan[it].timestamp # NoneVal
                   /\ now > store.last_scan[it].timestamp + Timeout
                THEN /\ store'.status[it] = NOT_COMPUTED
                     /\ ~store'.computing[it].is_computing
                ELSE store'.status[it] = COMPUTING]_vars

\* C2, witness: a poll later than last_scan.timestamp + 10 minutes has reset
\* an immediate run
C2_TimedOut ==
    /\ last.op = "check_computing_status"
    /\ last.arg = ""
    /\ last.pre = COMPUTING
    /\ store.status[last.it] = NOT_COMPUTED
    /\ store.last_scan[last.it].timestamp # NoneVal
    /\ now > store.last_scan[last.it].timestamp + Timeout

\* C3, as stated: a poll does not reset an immediate scan to NOT_COMPUTED
\* earlier than 10 minutes after the moment the scan was started
C3_TimeoutFromScanStart ==
    [][\A it \in IssueTypes :
          /\ Polled(it)
          /\ store.computing[it].execution_type # "delegate_execution"
          /\ store.status[it] = COMPUTING
          /\ store'.status[it] = NOT_COMPUTED
          => now >= scanStart[it] + Timeout]_vars

\* C4, as stated: after a poll that finds the delegated run completed, the
\* status is NEEDS_REVIEW, is_computing is false, the results are recomputed
\* and last_scan is that of the recomputation
C4_CompletedRecomputes ==
    [][\A it \in IssueTypes :
          PolledDelegated(it) /\ last'.arg = "completed"
          => /\ store'.status[it] = NEEDS_REVIEW
             /\ ~store'.computing[it].is_computing
             /\ store'.results[it].data =
                    IF it = "exact_duplicates" THEN DupFilehashes(fld[it])
                    ELSE {ValueOf(i) : i \in SamplesWith(fld[it])}
             /\ store'.last_scan[it] =
                    [timestamp |-> now, dataset_size |-> DatasetSize]]_vars

\* C5: after a poll that finds the delegated run failed and whose local
\* recomputation raises nothing, the status is NEEDS_REVIEW and is_computing
\* is false.
C5_FailedThenRecomputed ==
    [][\A it \in IssueTypes :
          /\ PolledDelegated(it)
          /\ last'.arg = "failed"
          /\ ProcessIssueComputation(Cur, it, FALSE).exc = "none"
          => /\ store'.status[it] = NEEDS_REVIEW
             /\ ~store'.computing[it].is_computing]_vars

\* C5, witness: a poll of a failed run has left the issue in NEEDS_REVIEW
\* with recomputed results
C5_Recovered ==
    /\ last.op = "check_computing_status"
    /\ last.arg = "failed"
    /\ last.pre = COMPUTING
    /\ store.status[last.it] = NEEDS_REVIEW
    /\ store.last_scan[last.it].timestamp = now
    /\ ~store.computing[last.it].is_computing

\* C6: after a poll that finds the delegated run failed and whose local
\* recomputation raises, nothing reaches the host, the alert is
\* computation_failed_<issue type>, the status is NOT_COMPUTED, is_computing
\* is false, and the screen is home if the issue type was the one viewed.
C6_FailedTwice ==
    [][\A it \in IssueTypes :
          /\ PolledDelegated(it)
          /\ last'.arg = "failed"
          /\ ProcessIssueComputation(Cur, it, FALSE).exc # "none"
          => /\ last'.exc = "none"
             /\ panel'.alert = "computation_failed_" \o it
             /\ store'.status[it] = NOT_COMPUTED
             /\ ~store'.computing[it].is_computing
             /\ (panel.issue_type = it => panel'.screen = "home")]_vars

\* C6, witness: a poll of a failed run of the issue type viewed has alerted
\* the user and returned to home
C6_Surfaced ==
    /\ last.op = "check_computing_status"
    /\ last.arg = "failed"
    /\ last.viewed
    /\ last.exc = "none"
    /\ panel.alert = "computation_failed_" \o last.it
    /\ store.status[last.it] = NOT_COMPUTED
    /\ panel.screen = "home"

\* C7, amended: a delegated run has no timeout; a poll that finds it
\* scheduled or running leaves the status COMPUTING and is_computing true,
\* however long ago the scan started, and records the run state.
C7_DelegatedNeverTimedOut ==
    [][\A it \in IssueTypes :
          /\ PolledDelegated(it)
          /\ last'.arg \in {"scheduled", "running"}
          /\ store.status[it] = COMPUTING
          => /\ store'.status[it] = COMPUTING
             /\ store'.computing[it].is_computing
             /\ store'.computing[it].delegation_status = last'.arg]_vars

\* C7, witness: a delegated run polled as running more than 10 minutes after
\* its start is still COMPUTING
C7_StillComputing ==
    /\ last.op = "check_computing_status"
    /\ last.arg = "running"
    /\ store.status[last.it] = COMPUTING
    /\ store.computing[last.it].delegation_status = "running"
    /\ scanStart[last.it] # NoneVal
    /\ now > scanStart[last.it] + Timeout

\* C7, as stated: a delegated run polled as scheduled or running more than
\* 10 minutes after its start is reset, it does not stay COMPUTING
C7_DelegatedTimeout ==
    [][\A it \in IssueTypes :
          /\ PolledDelegated(it)
          /\ last'.arg \in {"scheduled", "running"}
          /\ store.status[it] = COMPUTING
          /\ now > scanStart[it] + Timeout
          => store'.status[it] = NOT_COMPUTED]_vars

\* the step left the analysis screen of the issue type under review
LeftReview ==
    /\ ReviewWarning
    /\ last'.op \in {"navigate_to_screen", "mark_as_reviewed_in_modal"}
    /\ panel'.screen # "analysis"

\* C8, amended: in review state the back button is the leave-without-review
\* modal; its primary button stores REVIEWED and returns to home, its
\* secondary button returns to home and leaves the status NEEDS_REVIEW.
C8_LeaveReview ==
    [][LeftReview
          => /\ panel'.screen = "home"
             /\ store'.status[panel.issue_type] =
                    IF last'.op = "mark_as_reviewed_in_modal"
                    THEN REVIEWED ELSE NEEDS_REVIEW]_vars

\* C8, witness: the primary button of the modal has been pressed
C8_MarkedInModal ==
    /\ last.op = "mark_as_reviewed_in_modal"
    /\ last.pre = NEEDS_REVIEW
    /\ store.status[last.it] = REVIEWED
    /\ panel.screen = "home"

\* C8, as stated: leaving the analysis screen of an issue type in
\* NEEDS_REVIEW stores REVIEWED
C8_LeavingMarksReviewed ==
    [][LeftReview => store'.status[panel.issue_type] = REVIEWED]_vars

\* C9, as stated: navigating to the analysis of an issue type that is
\* NEEDS_REVIEW or REVIEWED while no sample carries its field resets it:
\* NOT_COMPUTED, default results and last_scan, screen pre_load_compute
C9_StaleIssueReset ==
    [][\A it \in IssueTypes :
          /\ last'.op = "navigate_to_screen"
          /\ last'.it = it
          /\ last'.arg = "analysis"
          /\ store.status[it] \in {NEEDS_REVIEW, REVIEWED}
          /\ CountWith(fld[it]) = 0
          => /\ store'.status[it] = NOT_COMPUTED
             /\ store'.results[it] = DefaultResults
             /\ store'.last_scan[it] = DefaultLastScan
             /\ panel'.screen = "pre_load_compute"]_vars

\* C10, as stated: when the operator of a scan starts to run, the store
\* holds COMPUTING and is_computing for the issue type
C10_ComputingBeforeRun ==
    [][op.phase # "running" /\ op'.phase = "running"
          => /\ store'.status[op'.it] = COMPUTING
             /\ store'.computing[op'.it].is_computing]_vars

-----------------------------------------------------------------------------
(* Sessions: on_load, on_unload *)

\* C11: when a session is unloaded, the persisted record changes in its
\* computing part only, which becomes the session's computing record, and an
\* on_load that follows gives the new session the computing record the
\* unloaded session held, for every issue type.
C11_UnloadThenLoad ==
    [][last'.op = "on_unload"
       => /\ store' = [store EXCEPT !.computing = panel.computing]
          /\ OnLoad([store |-> store', panel |-> panel', exc |-> "none"])
                 .panel.computing = panel.computing]_vars

\* C11: a session has just been loaded after an earlier one was unloaded
\* during a run, and it holds the run's computing record: its poll resumes
C11_Resumed ==
    /\ last.op = "on_load"
    /\ \E it \in IssueTypes :
           /\ panel.computing[it].is_computing
           /\ store.status[it] = COMPUTING
           /\ ENABLED Poll(it, IF panel.computing[it].execution_type = "execute"
                               THEN "" ELSE "running")

C13_WritesFromSessionState ==
    [][/\ last'.op = "on_unload" => store'.computing = panel.computing
       /\ (store'.computing # store.computing /\ last'.op # "on_unload")
             => store'.computing = panel'.computing]_vars

\* C13: a lost update.  The other session started a run and persisted its
\* computing record; this session, loaded before, was unloaded and wrote its
\* stale record over it: the status is COMPUTING, the stored record says that
\* nothing is computing, and nothing was raised.
C13_LostUpdate ==
    /\ last.op = "on_unload"
    /\ last.exc = "none"
    /\ other.loaded
    /\ \E it \in IssueTypes :
           /\ other.computing[it].is_computing
           /\ other.computing[it].delegation_run_id = RunId
           /\ store.status[it] = COMPUTING
           /\ store.computing[it] = DefaultComputing

-----------------------------------------------------------------------------
(* Cancelling and polling: what is left alone *)

\* C14: cancel_compute, called back for an operator that ended in an error,
\* stores NOT_COMPUTED and is_computing false for the issue type it is given
\* (so no polling timer is drawn for it) and leaves results, counts, config
\* and last_scan of the record as they were; the operator itself is not
\* touched (the host has already dropped it).  Given no issue type it
\* changes neither the store nor the session.
C14_CancelResetsStatusOnly ==
    [][last'.op = "cancel_compute"
       => /\ last'.exc = "none"
          /\ op' = Idle
          /\ last'.arg # None
                => /\ store'.status[last'.arg] = NOT_COMPUTED
                   /\ ~store'.computing[last'.arg].is_computing
                   /\ ~panel'.computing[last'.arg].is_computing
                   /\ store'.results = store.results
                   /\ store'.counts = store.counts
                   /\ store'.current_counts = store.current_counts
                   /\ store'.config = store.config
                   /\ store'.last_scan = store.last_scan
                   /\ panel'.issue_config = panel.issue_config
                   /\ panel'.last_scan = panel.last_scan
          /\ last'.arg = None => store' = store /\ panel' = panel]_vars

\* C14: the scan of an issue type that is COMPUTING and holds the timestamp
\* of a scan has been cancelled
C14_Cancelled ==
    /\ last.op = "cancel_compute"
    /\ last.arg \in IssueTypes
    /\ last.pre = COMPUTING
    /\ store.status[last.arg] = NOT_COMPUTED
    /\ store.last_scan[last.arg].timestamp # NoneVal

\* C15: a poll of a delegated run that the service reports as scheduled or
\* running changes the delegation_status string of that issue type's computing
\* record, in the store and in the session, and nothing else: status,
\* results, counts, last_scan, is_computing, the screen and the records of the
\* other issue types stay as they were, and nothing is raised.  When the
\* service knows no state of the run, nothing changes at all.
C15_InProgressPoll ==
    [][\A it \in IssueTypes :
          /\ (PolledDelegated(it) /\ last'.arg \in {"scheduled", "running"})
                => /\ store' = [store EXCEPT
                                   !.computing[it].delegation_status = last'.arg]
                   /\ panel' = [panel EXCEPT
                                   !.computing[it].delegation_status = last'.arg]
                   /\ panel'.computing[it].is_computing
                   /\ last'.exc = "none"
          /\ (PolledDelegated(it) /\ last'.arg = None)
                => store' = store /\ panel' = panel]_vars

\* C15: a delegated run has been polled and found running
C15_FoundRunning ==
    /\ last.op = "check_computing_status"
    /\ last.arg = "running"
    /\ last.it \in IssueTypes
    /\ store.status[last.it] = COMPUTING
    /\ store.computing[last.it] =
           [is_computing |-> TRUE, execution_type |-> "delegate_execution",
            delegation_run_id |-> RunId, delegation_status |-> "running"]

\* C16: check_computing_status called without an issue type raises at once:
\* the persisted record and the session state are as they were before.
C16_NoIssueTypeRaises ==
    [][(last'.op = "check_computing_status" /\ last'.it = None)
       => /\ last'.exc = "Exception"
          /\ store' = store
          /\ panel' = panel]_vars

\* C16: the call without an issue type has been made during a run
C16_RaisedDuringRun ==
    /\ last.op = "check_computing_status"
    /\ last.it = None
    /\ last.exc = "Exception"
    /\ \E it \in IssueTypes :
           panel.computing[it].is_computing /\ store.status[it] = COMPUTING

-----------------------------------------------------------------------------
(* Abandoning a stuck run *)

\* an immediate run of it is COMPUTING and polled, and the time its timeout
\* is measured from leaves room for the timeout on the model's clock
StuckRun(it) ==
    /\ panel.loaded
    /\ store.status[it] = COMPUTING
    /\ panel.computing[it].is_computing
    /\ store.computing[it].execution_type = "execute"
    /\ store.last_scan[it].timestamp # NoneVal
    /\ store.last_scan[it].timestamp + Timeout < MaxTime

\* the run of it has been given up: NOT_COMPUTED, no polling timer
Abandoned(it) ==
    /\ store.status[it] = NOT_COMPUTED
    /\ ~store.computing[it].is_computing
    /\ ~panel.computing[it].is_computing
    /\ ~ENABLED Poll(it, "")

\* C17: with the polling timer firing and time passing, an immediate run
\* whose operator never calls back does not stay COMPUTING: it is eventually
\* reset to NOT_COMPUTED with is_computing false, and it is polled no more.
C17_StuckRunAbandoned ==
    \A it \in IssueTypes : StuckRun(it) ~> Abandoned(it)

\* C17: a run has been abandoned by the timeout while its operator was still
\* running
C17_AbandonedWhileRunning ==
    /\ last.op = "check_computing_status"
    /\ last.it \in IssueTypes
    /\ last.pre = COMPUTING
    /\ op = [it |-> last.it, opt |-> "execute", phase |-> "running"]
    /\ Abandoned(last.it)
    /\ now > store.last_scan[last.it].timestamp + Timeout

-----------------------------------------------------------------------------
(* New samples *)

\* check_for_new_samples goes through its loop body for issue type it: the
\* type has complete results (exact duplicates are not asked for any) and has
\* not been checked in this session
NewSampleCheckDue(it) ==
    /\ last'.op = "check_for_new_samples"
    /\ it = "exact_duplicates" \/ store.results[it].has
    /\ ~panel.new_samples[it].checked

\* the tracker [0, True, False]
NothingNew == [count |-> 0, checked |-> TRUE, rescan |-> FALSE]

ModifiedSinceScan(it) ==
    /\ panel.last_scan[it].timestamp # NoneVal
    /\ lastMod > panel.last_scan[it].timestamp

AllChecked == \A it \in IssueTypes : panel.new_samples[it].checked

\* C20: within a session (from its on_load to its on_unload) no event handler
\* takes back the checked flag of an issue type's tracker; when every issue
\* type is checked the session flag new_sample_scan is false, and once false
\* it stays false, so that render draws no new-sample timer any more.
C20_CheckedOnce ==
    [][/\ last'.op \notin {"on_load", "on_unload"}
          => /\ \A it \in IssueTypes :
                    panel.new_samples[it].checked
                       => panel'.new_samples[it].checked
             /\ ~panel.new_sample_scan => ~panel'.new_sample_scan
       /\ AllChecked' => ~panel'.new_sample_scan]_vars

\* C20: the check has handled the last issue type of the session: the flag
\* is cleared and the timer of the check is not drawn
C20_CheckDone ==
    /\ last.op = "check_for_new_samples"
    /\ panel.loaded
    /\ AllChecked
    /\ ~panel.new_sample_scan
    /\ ~ENABLED NewSampleTimer
    /\ \E it \in IssueTypes : panel.new_samples[it].count > 0

\* One session of a user who scans an issue type and works on its thresholds:
\* the slider, the threshold menu, and the way home and back.
NextThresholds ==
    \/ LoadPanel
    \/ GetStarted
    \/ \E it \in focus : OpenIssue(it)
    \/ BackButton
    \/ LeaveNotReady
    \/ \E it \in focus : SelectOption(it, "execute")
    \/ ComputeNearDuplicates("execute")
    \/ OperatorRuns
    \/ OperatorSucceeds(FALSE)
    \/ \E lo, hi \in ThresholdVals : Slider(lo, hi)
    \/ \E value \in {"Save Threshold", "Reset Threshold"} : ThresholdMenu(value)

SpecThresholds == Init /\ [][NextThresholds]_vars

-----------------------------------------------------------------------------
(* The threshold helpers, called on their own *)

\* the largest value a range or an allowed bound of get_threshold_range takes
MaxBound == 3
RangeVals == 0..MaxBound

\* get_threshold_range(min_v, max_v, lower_std_bound, upper_std_bound)
ThresholdRange(min_v, max_v, lower_std_bound, upper_std_bound) ==
    /\ user' = user
    /\ call' = [fn |-> "get_threshold_range",
                args |-> <<min_v, max_v, lower_std_bound, upper_std_bound>>,
                method |-> "",
                out |-> GetThresholdRange(min_v, max_v, lower_std_bound, upper_std_bound),
                again |-> FALSE]
    /\ UNCHANGED <<store, panel, other, fld, lastMod, now, op, scanStart, focus, written, last>>

\* get_threshold_range applied to the pair it returned, the bounds being kept
ThresholdRangeAgain ==
    /\ call.fn = "get_threshold_range"
    /\ user' = user
    /\ call' = [call EXCEPT
                   !.args = <<call.out[1], call.out[2], call.args[3], call.args[4]>>,
                   !.out = GetThresholdRange(call.out[1], call.out[2], call.args[3], call.args[4]),
                   !.again = TRUE]
    /\ UNCHANGED <<store, panel, other, fld, lastMod, now, op, scanStart, focus, written, last>>

\* get_plot_defaults works on decimals: they are counted in tenths
Unit == 10

\* ctx.dataset.bounds(field): 0, 1, 2 and 100
ObservedVals == {0, 10, 20, 1000}

\* issue_config[field]["min"], ["max"]: -0.5, 0, 0.1, 0.9, 1, 1.5, 150 and 200,
\* as fractions or as absolute values, in either order
ConfigVals == {-5, 0, 1, 9, 10, 15, 1500, 2000}

DetectMethods == {"percentage", "threshold"}

\* get_plot_defaults(ctx, field, method) on a field with bounds (min_v, max_v)
\* and the configuration {min: new_lower, max: new_upper}
PlotDefaultsCall(new_lower, new_upper, method, min_v, max_v) ==
    /\ min_v <= max_v
    /\ user' = user
    /\ call' = [fn |-> "get_plot_defaults",
                args |-> <<new_lower, new_upper, min_v, max_v>>,
                method |-> method,
                out |-> PlotDefaultsAt(Unit, new_lower, new_upper, method, min_v, max_v),
                again |-> FALSE]
    /\ UNCHANGED <<store, panel, other, fld, lastMod, now, op, scanStart, focus, written, last>>

InitHelpers ==
    /\ focus = {"brightness"}
    /\ store = NoStore
    /\ panel = FreshPanel
    /\ other = FreshPanel
    /\ fld = [it \in IssueTypes |-> "missing"]
    /\ lastMod = 0
    /\ now = 0
    /\ op = Idle
    /\ scanStart = [it \in IssueTypes |-> NoneVal]
    /\ written = {}
    /\ last = NoEvent
    /\ user = "EDIT"
    /\ call = NoCall

NextHelpers ==
    \/ \E min_v, max_v, lower_std_bound, upper_std_bound \in RangeVals : ThresholdRange(min_v, max_v, lower_std_bound, upper_std_bound)
    \/ ThresholdRangeAgain
    \/ \E new_lower, new_upper \in ConfigVals, method \in DetectMethods, min_v, max_v \in ObservedVals : PlotDefaultsCall(new_lower, new_upper, method, min_v, max_v)

SpecHelpers == InitHelpers /\ [][NextHelpers]_vars

\* get_threshold_range has been applied to its own result
Reapplied == call.fn = "get_threshold_range" /\ call.again

\* C21, as stated: whatever the range and the allowed bounds,
\* get_threshold_range applied to its own result returns that result.
C21_Idempotent ==
    Reapplied => call.out = <<call.args[1], call.args[2]>>

\* C21: get_threshold_range applied to its own result returns that result,
\* whenever the allowed bounds are in order (lower_std_bound <=
\* upper_std_bound).
C21_IdempotentOrderedBounds ==
    (Reapplied /\ call.args[3] <= call.args[4])
        => call.out = <<call.args[1], call.args[2]>>

\* a range clamped to the lower bound has been handed back to the helper
C21_ClampedReapplied ==
    /\ Reapplied
    /\ call.args[3] < call.args[4]
    /\ call.args[1] < call.args[3]
    /\ call.args[2] = call.args[3]

\* the cases of a call get_threshold_range(min_v, max_v, lower, upper)
RangeCalled == call.fn = "get_threshold_range"
FullyInside ==
    /\ call.args[3] <= call.args[1] /\ call.args[1] <= call.args[4]
    /\ call.args[3] <= call.args[2] /\ call.args[2] <= call.args[4]
OnlyLowerOutside ==
    /\ call.args[1] < call.args[3]
    /\ call.args[3] <= call.args[2] /\ call.args[2] <= call.args[4]
OnlyUpperOutside ==
    /\ call.args[2] > call.args[4]
    /\ call.args[3] <= call.args[1] /\ call.args[1] <= call.args[4]

\* C22, as stated: a range inside the bounds is returned unchanged; a range
\* whose lower end alone is outside comes back as (lower_std_bound, max_v), one
\* whose upper end alone is outside as (min_v, upper_std_bound).
C22_ClampsIntoBounds ==
    RangeCalled =>
        /\ FullyInside => call.out = <<call.args[1], call.args[2]>>
        /\ OnlyLowerOutside => call.out = <<call.args[3], call.args[2]>>
        /\ OnlyUpperOutside => call.out = <<call.args[1], call.args[4]>>

\* C22: a range inside the bounds is returned unchanged; a range whose lower
\* end alone is outside comes back as its part below the bounds, (min_v,
\* lower_std_bound), one whose upper end alone is outside as its part above
\* them, (upper_std_bound, max_v).
C22_KeepsPartOutside ==
    RangeCalled =>
        /\ FullyInside => call.out = <<call.args[1], call.args[2]>>
        /\ OnlyLowerOutside => call.out = <<call.args[1], call.args[3]>>
        /\ OnlyUpperOutside => call.out = <<call.args[4], call.args[2]>>

\* a range reaching above the upper bound only has been resolved
C22_UpperOutsideResolved ==
    RangeCalled /\ ~call.again /\ OnlyUpperOutside /\ call.args[1] > call.args[3]

\* get_threshold_range was called with both ends outside the bounds
BothOutside ==
    RangeCalled /\ call.args[1] < call.args[3] /\ call.args[2] > call.args[4]

\* C23: with both ends outside the bounds get_threshold_range returns one
\* side only: the lower one, (min_v, lower_std_bound), iff lower_std_bound -
\* min_v > max_v - upper_std_bound, and otherwise, a tie included, the upper
\* one, (upper_std_bound, max_v).
C23_FartherSideUpperOnTie ==
    BothOutside =>
        call.out = IF call.args[3] - call.args[1] > call.args[2] - call.args[4]
                   THEN <<call.args[1], call.args[3]>>
                   ELSE <<call.args[4], call.args[2]>>

\* a range sticking out equally far on both sides has been resolved
C23_TieResolved ==
    /\ BothOutside
    /\ call.args[3] - call.args[1] = call.args[2] - call.args[4]
    /\ call.args[3] < call.args[4]

\* get_plot_defaults was called with the method
Resolved(method) == call.fn = "get_plot_defaults" /\ call.method = method

\* the part frac of the observed range, counted from its lower end
FractionOf(frac) == call.args[3] + (frac * (call.args[4] - call.args[3])) \div Unit

\* C24: with the percentage method a configured {min: a, max: b} of fractions
\* (0 <= a <= b <= 1) is resolved against the observed bounds to (min_v +
\* a*(max_v - min_v), min_v + b*(max_v - min_v)); bounds 0 and 100 with 0.1
\* and 0.9 give (10, 90).
C24_ResolvesFractions ==
    (/\ Resolved("percentage")
     /\ 0 <= call.args[1] /\ call.args[1] <= call.args[2] /\ call.args[2] <= Unit)
        => call.out = <<FractionOf(call.args[1]), FractionOf(call.args[2])>>

\* C25: with the percentage method neither resolved threshold exceeds max_v,
\* whatever the configured fractions and the observed bounds min_v <= max_v.
C25_NeverAboveMax ==
    Resolved("percentage")
        => /\ call.out[1] <= call.args[4]
           /\ call.out[2] <= call.args[4]

\* C26: with the threshold method the configured absolute bounds are returned
\* as they are, except that a configured max below min_v gives (max, max) and
\* a configured min above max_v gives (min, min), the former going first
\* should a pair given the wrong way round meet both; bounds 0 and 100 with
\* 150 and 200 give (150, 150).
C26_ThresholdPassThrough ==
    Resolved("threshold")
        => call.out = IF call.args[2] < call.args[3]
                      THEN <<call.args[2], call.args[2]>>
                      ELSE IF call.args[1] > call.args[4]
                      THEN <<call.args[1], call.args[1]>>
                      ELSE <<call.args[1], call.args[2]>>

\* 150 and 200 have been resolved against the bounds 0 and 100
C26_AboveRangeCollapsed ==
    /\ Resolved("threshold")
    /\ call.args = <<150 * Unit, 200 * Unit, 0, 100 * Unit>>
    /\ call.out = <<150 * Unit, 150 * Unit>>

\* C27: whichever the method, a saved {min, max} lying within the closed
\* observed range [min_v, max_v] is returned exactly, a saved value equal to
\* 0, to min_v or to max_v included.
C27_SavedWithinRangeVerbatim ==
    (/\ call.fn = "get_plot_defaults"
     /\ call.args[3] <= call.args[1]
     /\ call.args[1] <= call.args[2]
     /\ call.args[2] <= call.args[4])
        => call.out = <<call.args[1], call.args[2]>>

SavedThresholds(it) ==
    /\ store.exists
    /\ store.config[it] # DefaultIssueConfig[it]
    /\ QueryError(fld[it]) = "none"
    /\ BoundsMin(fld[it]) <= store.config[it].min
    /\ store.config[it].min <= store.config[it].max
    /\ store.config[it].max <= BoundsMax(fld[it])

\* the analysis screen of the issue type is entered from the home screen
Reopened(it) ==
    /\ last'.op = "navigate_to_screen"
    /\ last'.it = it
    /\ last'.arg = "analysis"
    /\ panel.screen = "home"

\* C29: thresholds (lo, hi) within the observed bounds that were saved with
\* Save Threshold are in effect again, exactly, when the user has gone home
\* and comes back to the analysis screen of the issue type, for every lo <=
\* hi, lo = 0 or lo at the observed minimum included.
C29_SavedThresholdsRoundTrip ==
    [][\A it \in IssueTypes \ {"exact_duplicates"} :
          (Reopened(it) /\ SavedThresholds(it))
          => /\ last'.exc = "none"
             /\ panel'.hist_lower_thresh = store.config[it].min
             /\ panel'.hist_upper_thresh = store.config[it].max]_vars

\* C30: for every non-duplicate issue type, after slider_change to (lo, hi)
\* the stored current count of the type is the number of samples whose value
\* lies in [lo, hi], lo = hi = 0 included.
C30_SliderCountsRange ==
    [][\A it \in IssueTypes \ {"near_duplicates", "exact_duplicates"} :
          (last'.op = "slider_change" /\ last'.it = it)
          => store'.current_counts[it] =
                 CountIn(fld[it], panel'.hist_lower_thresh, panel'.hist_upper_thresh)]_vars

-----------------------------------------------------------------------------
(* The exact-duplicate grouping, called on its own *)

\* the most samples a dataset holds, and the hashes they carry
MaxSamples == 6
Filehashes == {"a", "b", "c"}

\* the datasets: with the filehash field, each sample carrying a hash or
\* None; without it, no sample carrying one
HashLists == UNION {[1..n -> Filehashes \cup {None}] : n \in 0..MaxSamples}

InitDuplicates ==
    /\ focus = {"exact_duplicates"}
    /\ store = NoStore
    /\ panel = FreshPanel
    /\ other = FreshPanel
    /\ fld = [it \in IssueTypes |-> "missing"]
    /\ lastMod = 0
    /\ now = 0
    /\ op = Idle
    /\ scanStart = [it \in IssueTypes |-> NoneVal]
    /\ written = {}
    /\ last = NoEvent
    /\ \E has_field \in BOOLEAN, hashes \in HashLists :
          /\ ~has_field => \A i \in 1..Len(hashes) : hashes[i] = None
          /\ user = "EDIT"
          /\ call = [NoCall EXCEPT !.args = <<has_field, hashes>>]

\* _process_exact_duplicates(ctx)
ProcessExactDuplicatesCall ==
    /\ call.fn = "none"
    /\ user' = user
    /\ call' = [call EXCEPT !.fn = "_process_exact_duplicates",
                            !.out = ProcessExactDuplicates(call.args[1], call.args[2])]
    /\ UNCHANGED <<store, panel, other, fld, lastMod, now, op, scanStart, focus, written, last>>

SpecDuplicates == InitDuplicates /\ [][ProcessExactDuplicatesCall]_vars

\* the grouping has been computed
Grouped == call.fn = "_process_exact_duplicates"

\* the ids of the samples carrying the hash, and the ids of a group
Carrying(h) == {i \in 1..Len(call.args[2]) : call.args[2][i] = h}
IdsOf(group) == {group[2][n] : n \in 1..Len(group[2])}

\* C31: the returned hashes are exactly those carried by at least two
\* samples; there is one group per such hash, holding exactly the ids of the
\* samples with that hash in encounter order; no id is in two groups; the
\* returned count is the sum of the group sizes.
C31_GroupsByHash ==
    Grouped =>
        LET groups == call.out.dup_sample_ids
        IN  /\ call.out.dup_filehashes =
                  {h \in Filehashes : Cardinality(Carrying(h)) >= 2}
            /\ {groups[n][1] : n \in 1..Len(groups)} = call.out.dup_filehashes
            /\ \A n \in 1..Len(groups) :
                  /\ IdsOf(groups[n]) = Carrying(groups[n][1])
                  /\ \A a, b \in 1..Len(groups[n][2]) :
                        a < b => groups[n][2][a] < groups[n][2][b]
            /\ \A n, q \in 1..Len(groups) :
                  n # q => IdsOf(groups[n]) \cap IdsOf(groups[q]) = {}
            /\ call.out.num_duplicates =
                  Cardinality(UNION {IdsOf(groups[n]) : n \in 1..Len(groups)})

\* hashes a, a, b, c, c, c have been grouped into a: [1, 2] and c: [4, 5, 6],
\* five duplicates in all
C31_GroupedExample ==
    /\ Grouped
    /\ call.args = <<TRUE, <<"a", "a", "b", "c", "c", "c">>>>
    /\ call.out.dup_sample_ids = <<<<"a", <<1, 2>>>>, <<"c", <<4, 5, 6>>>>>>
    /\ call.out.num_duplicates = 5

\* C32: on an empty dataset, on a dataset without the hash field and on a
\* dataset in which no hash occurs twice the grouping returns ([], [], 0).
C32_NothingToGroup ==
    (/\ Grouped
     /\ \/ Len(call.args[2]) = 0
        \/ ~call.args[1]
        \/ \A h \in Filehashes : Cardinality(Carrying(h)) < 2)
        => call.out = [dup_filehashes |-> {}, dup_sample_ids |-> <<>>,
                       num_duplicates |-> 0]

\* a dataset whose hashed samples all differ, one sample being without a hash,
\* has been grouped
C32_AllDifferent ==
    /\ Grouped
    /\ call.args = <<TRUE, <<"a", None, "b", None, "c">>>>
    /\ call.out.num_duplicates = 0

\* C33: whenever the persisted status of an issue type is COMPUTING, the
\* computing record of the session has is_computing true for it, so that
\* render draws the timer that polls it.
C33_ComputingIsPolled ==
    \A it \in IssueTypes :
        (Rendered /\ store.status[it] = COMPUTING)
            => panel.computing[it].is_computing

\* C34: whenever the computing record of an issue type has is_computing
\* true, the persisted status of that issue type is COMPUTING.
C34_ComputingHasStatus ==
    \A it \in IssueTypes :
        (Rendered /\ panel.computing[it].is_computing)
            => store.status[it] = COMPUTING

\* C35: navigating to the analysis screen of an issue type whose status is
\* REVIEWED leaves the status REVIEWED, whatever the recompute parameter is.
C35_ReviewedStaysReviewed ==
    [][(/\ last'.op = "navigate_to_screen"
        /\ last'.arg = "analysis"
        /\ last'.pre = REVIEWED)
           => store'.status[last'.it] = REVIEWED]_vars

\* C36: a poll of issue type X made while the panel shows the home screen
\* or another issue type leaves the screen and the selected issue type as
\* they are, whatever run state the poll observes.
C36_PollKeepsScreen ==
    [][(/\ last'.op = "check_computing_status"
        /\ last'.it \in IssueTypes
        /\ panel.screen = "home" \/ panel.issue_type # last'.it)
           => /\ panel'.screen = panel.screen
              /\ panel'.issue_type = panel.issue_type]_vars

\* C37: a handler invoked for issue type X leaves the persisted status,
\* results, counts, config and last_scan of every other issue type unchanged.
C37_OtherIssuesUnchanged ==
    [][(last'.it \in IssueTypes /\ store.exists)
           => \A y \in IssueTypes \ {last'.it} :
                  /\ store'.status[y] = store.status[y]
                  /\ store'.results[y] = store.results[y]
                  /\ store'.counts[y] = store.counts[y]
                  /\ store'.config[y] = store.config[y]
                  /\ store'.last_scan[y] = store.last_scan[y]]_vars

(* The users of a dataset *)

\* the dataset permissions of the users who open the panel
Permissions == {"VIEW", "EDIT"}

\* the panel is closed and the next session is opened by another user
UserArrives(dataset_permission) ==
    /\ ~panel.loaded
    /\ op = Idle
    /\ user # dataset_permission
    /\ user' = dataset_permission
    /\ last' = NoEvent
    /\ UNCHANGED <<store, panel, other, fld, lastMod, now, op, scanStart,
                   focus, written, call>>

\* Sessions of users with and without the permission to edit the dataset,
\* one after the other; each control is offered as render enables it.
NextReadOnly ==
    \/ LoadPanel
    \/ UnloadPanel
    \/ Browsing
    \/ \E it \in focus : SelectOption(it, "execute")
    \/ OperatorRuns
    \/ OperatorSucceeds(FALSE)
    \/ \E it \in focus : Poll(it, "")
    \/ NewSampleTimer
    \/ \E p \in Permissions : UserArrives(p)

SpecReadOnly == Init /\ [][NextReadOnly]_vars

\* C38: in a session of a user whose dataset permission is below EDIT, no
\* event changes the persisted status, computing record or results of any
\* issue type.
C38_ReadOnlyChangesNothing ==
    [][(MissingMinAccessRequired("EDIT") /\ store.exists /\ user' = user)
           => /\ store'.status = store.status
              /\ store'.computing = store.computing
              /\ store'.results = store.results]_vars

(* The new-sample timer *)

\* One session in which issue types are scanned or left alone while samples
\* arrive; render draws the new-sample timer (timeout 2000) for as long as
\* new_sample_scan is set, and the timer keeps firing.
NextNewSampleScan ==
    \/ LoadPanel
    \/ GetStarted
    \/ \E it \in focus : OpenIssue(it)
    \/ BackButton
    \/ LeaveNotReady
    \/ \E it \in focus : SelectOption(it, "execute")
    \/ OperatorRuns
    \/ OperatorSucceeds(FALSE)
    \/ NewSampleTimer
    \/ NewSample
    \/ Tick

SpecNewSampleScan ==
    /\ Init
    /\ [][NextNewSampleScan]_vars
    /\ WF_vars(NewSampleTimer)

\* C39: in every session the new-sample check comes to an end: once the
\* panel is drawn, new_sample_scan eventually becomes false, whether or not
\* every issue type was scanned.
C39_NewSampleScanEnds == Rendered ~> ~panel.new_sample_scan

=============================================================================
